---- MODULE Spec2Model ----
(***************************************************************************)
(* Model of notebooks/databricks_control_flow.py.                          *)
(*                                                                         *)
(* The file is a Databricks notebook: a sequence of cells separated by     *)
(* "# COMMAND ----------" lines.  Five cells hold code; each binds one     *)
(* global to a dictionary literal (a workflow definition for the Jobs      *)
(* API), prints a heading and prints json.dumps of the dictionary.  The    *)
(* other cells are markdown, and the last code cell is commented out.      *)
(* Nothing in the file runs a workflow: the definitions are data.          *)
(*                                                                         *)
(* Python values are written as tagged values:                             *)
(*   Str(s)      a str of printable ASCII without quote or backslash,      *)
(*   Text(p)     any other str, as a sequence of pieces: Run(s) for a run  *)
(*               of such characters, Chr(n) for the character with code    *)
(*               point n,                                                  *)
(*   Num(n), Bool(b), Arr(<<v1, ...>>) (a list), Tup(<<v1, ...>>) (a       *)
(*   tuple), Obj(<< <<k1, v1>>, ... >>) (a dict, in insertion order).      *)
(***************************************************************************)
EXTENDS Integers, Sequences, FiniteSets, TLC

VARIABLES
    pc,         \* the statement the notebook executes next, or Idle
    globals,    \* notebook namespace: name -> value, or Undefined
    stdout      \* per code cell: the output of its last execution

vars == <<pc, globals, stdout>>

-----------------------------------------------------------------------------
(* Python values *)

Str(s)  == [t |-> "str",   v |-> s]
Text(p) == [t |-> "text",  v |-> p]
Num(n)  == [t |-> "int",   v |-> n]
Bool(b) == [t |-> "bool",  v |-> b]
Arr(s)  == [t |-> "arr",   v |-> s]
Tup(s)  == [t |-> "tuple", v |-> s]
Obj(s)  == [t |-> "obj",   v |-> s]

\* the pieces of a Text, and of the written form of a string: a run of
\* plain characters, one character by code point, a two-character escape
\* \c, and an escape \uXXXX by its four hexadecimal digits
Run(s)  == [k |-> "run", s |-> s,   n |-> 0, h |-> <<>>]
Chr(n)  == [k |-> "chr", s |-> "",  n |-> n, h |-> <<>>]
Esc(c)  == [k |-> "esc", s |-> c,   n |-> 0, h |-> <<>>]
EscU(h) == [k |-> "esc", s |-> "u", n |-> 0, h |-> h]

Keys(o) == {o.v[i][1] : i \in 1..Len(o.v)}

Has(o, k) == o.t = "obj" /\ k \in Keys(o)

\* d[k] of a dict: on a repeated key the last binding is the one kept
Get(o, k) ==
    LET idx == {i \in 1..Len(o.v) : o.v[i][1] = k}
        last == CHOOSE i \in idx : \A j \in idx : j <= i
    IN  o.v[last][2]

\* the set of elements of a Python list
Elems(a) == {a.v[i] : i \in 1..Len(a.v)}

\* d[k] = val on a key the dict has
SetKey(o, k, val) ==
    Obj([i \in 1..Len(o.v) |-> IF o.v[i][1] = k THEN <<k, val>> ELSE o.v[i]])

\* workflow["tasks"][i] = task
SetTask(w, i, task) ==
    SetKey(w, "tasks", Arr([Get(w, "tasks").v EXCEPT ![i] = task]))

-----------------------------------------------------------------------------
(* The literals *)

WAREHOUSE  == Str("0b4eee1bcc7b2623")
PROJECTDIR == Str("/Workspace/Repos/iot-dbt-databricks")

DbtTask(commands) ==
    Obj(<< <<"project_directory", PROJECTDIR>>,
           <<"commands", Arr(commands)>>,
           <<"schema", Str("iot_dev")>>,
           <<"warehouse_id", WAREHOUSE>> >>)

SqlTask(text) ==
    Obj(<< <<"query", Obj(<< <<"query_text", text>> >>)>>,
           <<"warehouse_id", WAREHOUSE>> >>)

Dep(k) == Obj(<< <<"task_key", Str(k)>> >>)

DepOutcome(k, o) == Obj(<< <<"task_key", Str(k)>>, <<"outcome", Str(o)>> >>)

\* the literal as written in the notebook, and variants of it with one slip
dbt_pipeline_literal ==
    Obj(<<
      <<"name", Str("iot_dbt_pipeline")>>,
      <<"description",
        Text(<<
                    Run("IoT Smart Factory "), Chr(8212), Run(" dbt Bronze "), Chr(8594),
                    Run(" Silver "), Chr(8594), Run(" Gold pipeline")>>)>>,
      <<"schedule", Obj(<< <<"quartz_cron_expression", Str("0 0 6 * * ?")>>,
                           <<"timezone_id", Str("UTC")>>,
                           <<"pause_status", Str("PAUSED")>> >>)>>,
      <<"email_notifications",
        Obj(<< <<"on_failure", Arr(<<Str("team@company.com")>>)>> >>)>>,
      <<"tasks", Arr(<<
        Obj(<< <<"task_key", Str("dbt_seed")>>,
               <<"description", Text(<<Run("Load seed data (CSV "), Chr(8594), Run(" Delta tables)")>>)>>,
               <<"dbt_task", DbtTask(<<Str("dbt seed --full-refresh")>>)>>,
               <<"timeout_seconds", Num(600)>> >>),
        Obj(<< <<"task_key", Str("dbt_run_bronze_silver")>>,
               <<"description", Str("Build Bronze and Silver layer models")>>,
               <<"depends_on", Arr(<<Dep("dbt_seed")>>)>>,
               <<"dbt_task", DbtTask(<<Str("dbt run --select tag:bronze tag:silver")>>)>>,
               <<"timeout_seconds", Num(1200)>> >>),
        Obj(<< <<"task_key", Str("dbt_test_silver")>>,
               <<"description", Str("Run data quality tests on Silver layer")>>,
               <<"depends_on", Arr(<<Dep("dbt_run_bronze_silver")>>)>>,
               <<"dbt_task", DbtTask(<<Str("dbt test --select tag:silver")>>)>>,
               <<"timeout_seconds", Num(600)>> >>),
        Obj(<< <<"task_key", Str("dbt_run_gold")>>,
               <<"description",
                 Str("Build Gold layer models (only if Silver tests pass)")>>,
               <<"depends_on", Arr(<<Dep("dbt_test_silver")>>)>>,
               <<"dbt_task", DbtTask(<<Str("dbt run --select tag:gold")>>)>>,
               <<"timeout_seconds", Num(1200)>> >>)
      >>)>>,
      <<"max_concurrent_runs", Num(1)>>
    >>)

TaskAt(w, i) == Get(w, "tasks").v[i]

\* slip: dbt_seed made to wait for dbt_run_gold
dbt_pipeline_cyclic ==
    SetTask(dbt_pipeline_literal, 1,
            Obj(<< <<"task_key", Str("dbt_seed")>>,
                   <<"depends_on", Arr(<<Dep("dbt_run_gold")>>)>> >>))

\* slip: dbt_test_silver given the depends_on of the task before it
dbt_pipeline_test_on_seed ==
    SetTask(dbt_pipeline_literal, 3,
            SetKey(TaskAt(dbt_pipeline_literal, 3), "depends_on",
                   Arr(<<Dep("dbt_seed")>>)))

dbt_pipeline_workflow == dbt_pipeline_literal

conditional_literal ==
    Obj(<<
      <<"name", Str("iot_conditional_pipeline")>>,
      <<"description",
        Str("Pipeline with conditional Gold refresh based on anomaly count")>>,
      <<"tasks", Arr(<<
        Obj(<< <<"task_key", Str("check_anomaly_count")>>,
               <<"description", Str("Count anomalies in Silver layer")>>,
               <<"sql_task", SqlTask(
                 Text(<<
                    Chr(10), Run("                        SELECT CASE "), Chr(10),
                    Run("                            WHEN count(*) > 50 THEN 'HIGH_ANOMALIES'"),
                    Chr(10), Run("                            ELSE 'NORMAL'"), Chr(10),
                    Run("                        END as anomaly_status"), Chr(10),
                    Run("                        FROM workspace.iot_dev_silver.int_sensor_readings_cleaned"),
                    Chr(10), Run("                        WHERE is_anomaly = true"), Chr(10),
                    Run("                    ")>>))>> >>),
        Obj(<< <<"task_key", Str("evaluate_anomalies")>>,
               <<"description",
                 Text(<<
                    Run("IF anomaly count > 50 "), Chr(8594), Run(" run full refresh, ELSE "),
                    Chr(8594), Run(" normal incremental")>>)>>,
               <<"depends_on", Arr(<<Dep("check_anomaly_count")>>)>>,
               <<"condition_task",
                 Obj(<< <<"op", Str("EQUAL_TO")>>,
                        <<"left", Str("{{tasks.check_anomaly_count.values.anomaly_status}}")>>,
                        <<"right", Str("HIGH_ANOMALIES")>> >>)>> >>),
        Obj(<< <<"task_key", Str("full_refresh_gold")>>,
               <<"description",
                 Str("Full refresh Gold tables due to high anomaly count")>>,
               <<"depends_on", Arr(<<DepOutcome("evaluate_anomalies", "true")>>)>>,
               <<"dbt_task",
                 DbtTask(<<Str("dbt run --select tag:gold --full-refresh")>>)>> >>),
        Obj(<< <<"task_key", Str("incremental_gold")>>,
               <<"description", Str("Normal incremental Gold update")>>,
               <<"depends_on", Arr(<<DepOutcome("evaluate_anomalies", "false")>>)>>,
               <<"dbt_task", DbtTask(<<Str("dbt run --select tag:gold")>>)>> >>)
      >>)>>
    >>)

\* slip: the second branch keeps the task_key of the first
conditional_duplicate_key ==
    SetTask(conditional_literal, 4,
            SetKey(TaskAt(conditional_literal, 4), "task_key",
                   Str("full_refresh_gold")))

\* slip: the second branch keeps the outcome of the first
conditional_both_true ==
    SetTask(conditional_literal, 4,
            SetKey(TaskAt(conditional_literal, 4), "depends_on",
                   Arr(<<DepOutcome("evaluate_anomalies", "true")>>)))

conditional_workflow == conditional_literal

foreach_workflow ==
    Obj(<<
      <<"name", Str("iot_per_plant_analysis")>>,
      <<"description", Str("Run device health analysis for each plant location")>>,
      <<"tasks", Arr(<<
        Obj(<< <<"task_key", Str("get_plant_locations")>>,
               <<"description", Str("Retrieve distinct plant locations")>>,
               <<"sql_task", SqlTask(
                 Text(<<
                    Chr(10), Run("                        SELECT DISTINCT plant_location "),
                    Chr(10), Run("                        FROM workspace.iot_dev_gold.dim_devices"),
                    Chr(10), Run("                    ")>>))>> >>),
        Obj(<< <<"task_key", Str("analyze_per_plant")>>,
               <<"description", Str("Run health analysis for each plant")>>,
               <<"depends_on", Arr(<<Dep("get_plant_locations")>>)>>,
               <<"for_each_task",
                 Obj(<< <<"inputs", Str("{{tasks.get_plant_locations.values}}")>>,
                        <<"task",
                          Obj(<< <<"task_key", Str("plant_health_check")>>,
                                 <<"sql_task", SqlTask(
                 Text(<<
                    Chr(10), Run("                                SELECT "), Chr(10),
                    Run("                                    '{{input}}' as plant,"), Chr(10),
                    Run("                                    count(*) as total_readings,"), Chr(10),
                    Run("                                    round(avg(health_score), 1) as avg_health,"),
                    Chr(10),
                    Run("                                    sum(CASE WHEN health_category = 'critical' THEN 1 ELSE 0 END) as critical_count"),
                    Chr(10),
                    Run("                                FROM workspace.iot_dev_gold.fct_device_summary s"),
                    Chr(10),
                    Run("                                JOIN workspace.iot_dev_gold.dim_devices d "),
                    Chr(10),
                    Run("                                    ON s.device_id = d.device_id"),
                    Chr(10),
                    Run("                                WHERE d.plant_location = '{{input}}'"),
                    Chr(10), Run("                            ")>>))>> >>)>>,
                        <<"concurrency", Num(3)>> >>)>> >>),
        Obj(<< <<"task_key", Str("aggregate_results")>>,
               <<"description", Str("Combine per-plant results into summary")>>,
               <<"depends_on", Arr(<<Dep("analyze_per_plant")>>)>>,
               <<"notebook_task",
                 Obj(<< <<"notebook_path",
                          Str("/Workspace/Repos/iot-dbt-databricks/notebooks/aggregate_health")>>,
                        <<"base_parameters",
                          Obj(<< <<"run_date", Str("{{job.start_time.iso_date}}")>> >>)>> >>)>> >>)
      >>)>>
    >>)

error_handling_config ==
    Obj(<<
      <<"task_key", Str("dbt_run_with_retries")>>,
      <<"description", Str("dbt run with robust error handling")>>,
      <<"dbt_task", DbtTask(<<Str("dbt run --select tag:gold")>>)>>,
      <<"retry_on_timeout", Bool(TRUE)>>,
      <<"max_retries", Num(3)>>,
      <<"min_retry_interval_millis", Num(30000)>>,
      <<"timeout_seconds", Num(1800)>>,
      <<"email_notifications",
        Obj(<< <<"on_start", Arr(<<Str("data-team@company.com")>>)>>,
               <<"on_success", Arr(<<Str("data-team@company.com")>>)>>,
               <<"on_failure", Arr(<<Str("oncall@company.com"),
                                     Str("data-team@company.com")>>)>> >>)>>,
      <<"health",
        Obj(<< <<"rules", Arr(<<
          Obj(<< <<"metric", Str("RUN_DURATION_SECONDS")>>,
                 <<"op", Str("GREATER_THAN")>>,
                 <<"value", Num(900)>> >>) >>)>> >>)>>
    >>)

parameterized_literal ==
    Obj(<<
      <<"name", Str("iot_parameterized_pipeline")>>,
      <<"description", Str("Pipeline with environment and threshold parameters")>>,
      <<"parameters", Arr(<<
        Obj(<< <<"name", Str("environment")>>, <<"default", Str("dev")>> >>),
        Obj(<< <<"name", Str("temperature_threshold")>>, <<"default", Str("85.0")>> >>),
        Obj(<< <<"name", Str("run_full_refresh")>>, <<"default", Str("false")>> >>)
      >>)>>,
      <<"tasks", Arr(<<
        Obj(<< <<"task_key", Str("dbt_run_parameterized")>>,
               <<"description", Str("Run dbt with dynamic parameters")>>,
               <<"dbt_task",
                 Obj(<< <<"project_directory", PROJECTDIR>>,
                        <<"commands", Arr(<<Str("dbt run --target {{job.parameters.environment}} --vars '{temperature_upper: {{job.parameters.temperature_threshold}}}' {% if job.parameters.run_full_refresh == 'true' %}--full-refresh{% endif %}")>>)>>,
                        <<"schema", Str("iot_{{job.parameters.environment}}")>>,
                        <<"warehouse_id", WAREHOUSE>> >>)>> >>),
        Obj(<< <<"task_key", Str("log_run_metadata")>>,
               <<"description", Str("Log run metadata for audit trail")>>,
               <<"depends_on", Arr(<<Dep("dbt_run_parameterized")>>)>>,
               <<"sql_task", SqlTask(
                 Text(<<
                    Chr(10), Run("                        INSERT INTO workspace.iot_audit.run_log"),
                    Chr(10), Run("                        VALUES ("), Chr(10),
                    Run("                            current_timestamp(),"), Chr(10),
                    Run("                            '{{job.parameters.environment}}',"), Chr(10),
                    Run("                            '{{job.parameters.temperature_threshold}}',"),
                    Chr(10),
                    Run("                            '{{tasks.dbt_run_parameterized.result_state}}'"),
                    Chr(10), Run("                        )"), Chr(10), Run("                    ")>>))>> >>)
      >>)>>
    >>)

\* slip: the commands of dbt_run_parameterized written as a tuple
parameterized_commands_tuple ==
    SetTask(parameterized_literal, 1,
            SetKey(TaskAt(parameterized_literal, 1), "dbt_task",
                   SetKey(Get(TaskAt(parameterized_literal, 1), "dbt_task"), "commands",
                          Tup(Get(Get(TaskAt(parameterized_literal, 1), "dbt_task"),
                                  "commands").v))))

parameterized_workflow == parameterized_literal

-----------------------------------------------------------------------------
(* json.dumps(obj, indent=2), as the sequence of JSON tokens it writes.    *)
(* The white space that indent=2 puts between tokens carries no value and  *)
(* is not part of the token sequence.  A string token holds the pieces     *)
(* written between its quotes.                                             *)

Punct(c)  == [k |-> "punct",  v |-> c]
StrTok(p) == [k |-> "string", v |-> p]
NumTok(n) == [k |-> "number", v |-> n]
LitTok(l) == [k |-> "lit",    v |-> l]

\* the four hexadecimal digits of n < 65536, as numbers 0..15
Hex4(n) == <<n \div 4096, (n \div 256) % 16, (n \div 16) % 16, n % 16>>

\* ensure_ascii: how one character outside a plain run is written
escape_chr(n) ==
    CASE n = 34 -> <<Esc("\"")>>
      [] n = 92 -> <<Esc("\\")>>
      [] n = 10 -> <<Esc("n")>>
      [] n = 13 -> <<Esc("r")>>
      [] n = 9  -> <<Esc("t")>>
      [] n = 12 -> <<Esc("f")>>
      [] n = 8  -> <<Esc("b")>>
      [] n \in 32..126 \ {34, 92} -> <<Chr(n)>>
      [] n >= 65536 -> <<EscU(Hex4(55296 + ((n - 65536) \div 1024))),
                         EscU(Hex4(56320 + ((n - 65536) % 1024)))>>
      [] OTHER -> <<EscU(Hex4(n))>>

RECURSIVE escape_pieces(_, _)
escape_pieces(p, i) ==
    IF i > Len(p) THEN <<>>
    ELSE (IF p[i].k = "chr" THEN escape_chr(p[i].n) ELSE <<p[i]>>)
         \o escape_pieces(p, i + 1)

RECURSIVE json_dumps(_), dumps_items(_, _), dumps_members(_, _)

\* the elements of a list or tuple from index i on, separated by ","
dumps_items(s, i) ==
    IF i > Len(s) THEN <<>>
    ELSE (IF i > 1 THEN <<Punct(",")>> ELSE <<>>)
         \o json_dumps(s[i]) \o dumps_items(s, i + 1)

\* the key: value members of a dict from index i on, separated by ","
dumps_members(s, i) ==
    IF i > Len(s) THEN <<>>
    ELSE (IF i > 1 THEN <<Punct(",")>> ELSE <<>>)
         \o <<StrTok(<<Run(s[i][1])>>), Punct(":")>> \o json_dumps(s[i][2])
         \o dumps_members(s, i + 1)

json_dumps(val) ==
    CASE val.t = "str"   -> <<StrTok(<<Run(val.v)>>)>>
      [] val.t = "text"  -> <<StrTok(escape_pieces(val.v, 1))>>
      [] val.t = "int"   -> <<NumTok(val.v)>>
      [] val.t = "bool"  -> <<LitTok(IF val.v THEN "true" ELSE "false")>>
      [] val.t \in {"arr", "tuple"} ->
             <<Punct("[")>> \o dumps_items(val.v, 1) \o <<Punct("]")>>
      [] val.t = "obj"   -> <<Punct("{")>> \o dumps_members(val.v, 1) \o <<Punct("}")>>

-----------------------------------------------------------------------------
(* parse: the reader of the wire document (json.loads).  Each parse_*      *)
(* returns [val |-> the value read, next |-> index of the token after it]. *)

\* the number written by four hexadecimal digits
Unhex(h) == h[1] * 4096 + h[2] * 256 + h[3] * 16 + h[4]

\* the character a two-character escape stands for
unescape_chr(c) ==
    CASE c = "\"" -> 34
      [] c = "\\" -> 92
      [] c = "/"  -> 47
      [] c = "n"  -> 10
      [] c = "r"  -> 13
      [] c = "t"  -> 9
      [] c = "f"  -> 12
      [] c = "b"  -> 8

IsEscU(p) == p.k = "esc" /\ p.s = "u"

\* the characters of a written string from piece i on; a high surrogate
\* followed by a low surrogate is one character
RECURSIVE unescape_pieces(_, _)
unescape_pieces(p, i) ==
    IF i > Len(p) THEN <<>>
    ELSE IF IsEscU(p[i]) THEN
        LET hi == Unhex(p[i].h)
            paired == /\ hi \in 55296..56319
                      /\ i < Len(p)
                      /\ IsEscU(p[i + 1])
                      /\ Unhex(p[i + 1].h) \in 56320..57343
        IN  IF paired
            THEN <<Chr(65536 + (hi - 55296) * 1024 + (Unhex(p[i + 1].h) - 56320))>>
                 \o unescape_pieces(p, i + 2)
            ELSE <<Chr(hi)>> \o unescape_pieces(p, i + 1)
    ELSE IF p[i].k = "esc" THEN
        <<Chr(unescape_chr(p[i].s))>> \o unescape_pieces(p, i + 1)
    ELSE <<p[i]>> \o unescape_pieces(p, i + 1)

\* the str a string token stands for
parse_string(tok) ==
    LET p == unescape_pieces(tok.v, 1)
    IN  IF Len(p) = 1 /\ p[1].k = "run" THEN Str(p[1].s) ELSE Text(p)

IsPunct(tok, c) == tok.k = "punct" /\ tok.v = c

RECURSIVE parse_value(_, _), parse_items(_, _, _), parse_members(_, _, _)

parse_items(toks, i, acc) ==
    IF IsPunct(toks[i], "]") THEN [val |-> Arr(acc), next |-> i + 1]
    ELSE LET j == IF IsPunct(toks[i], ",") THEN i + 1 ELSE i
             r == parse_value(toks, j)
         IN  parse_items(toks, r.next, Append(acc, r.val))

parse_members(toks, i, acc) ==
    IF IsPunct(toks[i], "}") THEN [val |-> Obj(acc), next |-> i + 1]
    ELSE LET j == IF IsPunct(toks[i], ",") THEN i + 1 ELSE i
             r == parse_value(toks, j + 2)
         IN  parse_members(toks, r.next,
                           Append(acc, <<parse_string(toks[j]).v, r.val>>))

parse_value(toks, i) ==
    CASE toks[i].k = "string" -> [val |-> parse_string(toks[i]), next |-> i + 1]
      [] toks[i].k = "number" -> [val |-> Num(toks[i].v), next |-> i + 1]
      [] toks[i].k = "lit"    -> [val |-> Bool(toks[i].v = "true"), next |-> i + 1]
      [] IsPunct(toks[i], "[")  -> parse_items(toks, i + 1, <<>>)
      [] IsPunct(toks[i], "{")  -> parse_members(toks, i + 1, <<>>)

json_loads(toks) == parse_value(toks, 1).val

-----------------------------------------------------------------------------
(* Reading a workflow definition *)

\* workflow["tasks"], as a sequence of task dictionaries
Tasks(w) == Get(w, "tasks").v

TaskKey(task) == Get(task, "task_key").v

\* the task_key of every entry of the top-level tasks list
TaskKeys(w) == {TaskKey(Tasks(w)[i]) : i \in 1..Len(Tasks(w))}

\* task.get("depends_on", []), as a sequence of {task_key[, outcome]} entries
DependsOn(task) ==
    IF Has(task, "depends_on") THEN Get(task, "depends_on").v ELSE <<>>

IsCondition(task) == Has(task, "condition_task")

\* the dependency edges of w: <<predecessor, successor, outcome tag>>,
\* with NoOutcome where the depends_on entry carries no outcome
NoOutcome == "none"

EdgesInto(task) ==
    {<<TaskKey(DependsOn(task)[n]), TaskKey(task),
       IF Has(DependsOn(task)[n], "outcome")
       THEN Get(DependsOn(task)[n], "outcome").v ELSE NoOutcome>> :
        n \in 1..Len(DependsOn(task))}

Edges(w) == UNION {EdgesInto(Tasks(w)[i]) : i \in 1..Len(Tasks(w))}

-----------------------------------------------------------------------------
(* Well-formedness of a workflow definition *)

UniqueKeys(w) ==
    \A i, j \in 1..Len(Tasks(w)) :
        i # j => TaskKey(Tasks(w)[i]) # TaskKey(Tasks(w)[j])

\* the tasks reached from the set S along one dependency edge
Successors(E, S) == {e[2] : e \in {x \in E : x[1] \in S}}

RECURSIVE ReachableFrom(_, _)
ReachableFrom(E, S) ==
    LET T == S \cup Successors(E, S)
    IN  IF T = S THEN S ELSE ReachableFrom(E, T)

Acyclic(w) ==
    \A k \in TaskKeys(w) \cup {e[1] : e \in Edges(w)} :
        k \notin ReachableFrom(Edges(w), Successors(Edges(w), {k}))

RefsDeclared(w) == \A e \in Edges(w) : e[1] \in TaskKeys(w)

\* the depends_on entries of w, as <<index of task, index of entry>>
DepEntries(w) ==
    UNION {{<<i, n>> : n \in 1..Len(DependsOn(Tasks(w)[i]))} : i \in 1..Len(Tasks(w))}

Entry(w, p) == DependsOn(Tasks(w)[p[1]])[p[2]]

\* the entries that name k as predecessor and carry an outcome
TaggedOut(w, k) ==
    {p \in DepEntries(w) : TaskKey(Entry(w, p)) = k /\ Has(Entry(w, p), "outcome")}

ConditionKeys(w) ==
    {TaskKey(Tasks(w)[i]) : i \in {j \in 1..Len(Tasks(w)) : IsCondition(Tasks(w)[j])}}

CompleteBranches(w) ==
    /\ \A k \in ConditionKeys(w) :
         /\ Cardinality(TaggedOut(w, k)) = 2
         /\ \A o \in {"true", "false"} :
              Cardinality({p \in TaggedOut(w, k) : Get(Entry(w, p), "outcome").v = o}) = 1
    /\ \A p \in DepEntries(w) :
         Has(Entry(w, p), "outcome") => TaskKey(Entry(w, p)) \in ConditionKeys(w)

-----------------------------------------------------------------------------
(* The notebook.  A code cell is a sequence of statements; the cells share *)
(* one namespace.  A cell is executed on its own, any cell at any time and *)
(* any number of times, one cell at a time; executing a cell replaces the  *)
(* output shown for it.  A statement that raises ends the execution of its *)
(* cell: what the cell bound and printed before stays.                     *)

Undefined  == [t |-> "undefined", v |-> ""]
JsonModule == [t |-> "module", v |-> "json"]

GlobalNames ==
    {"json", "dbt_pipeline_workflow", "conditional_workflow", "foreach_workflow",
     "error_handling_config", "parameterized_workflow"}

\* the globals that are workflow definitions (they carry a tasks list)
WorkflowNames ==
    {"dbt_pipeline_workflow", "conditional_workflow", "foreach_workflow",
     "parameterized_workflow"}

\* a code cell goes by the name of the global it binds
CellNames == GlobalNames \ {"json"}

\* no cell is executing
Idle == [cell |-> "", stmt |-> 0]

\* statement i of cell c is the next to execute
At(c, i) == [cell |-> c, stmt |-> i]

\* the output of a cell: the values printed, and the exception that ended it
NoOutput == [out |-> <<>>, error |-> "none"]

\* the statements of the cells
Import(name)     == [op |-> "import",      name |-> name, value |-> JsonModule]
Assign(name, v)  == [op |-> "assign",      name |-> name, value |-> v]
PrintText(v)     == [op |-> "print",       name |-> "",   value |-> v]
PrintDumps(name) == [op |-> "print_dumps", name |-> name, value |-> Undefined]

\* print(json.dumps(name, indent=2)) raises NameError when json or name
\* is not bound
Raises(stmt) ==
    /\ stmt.op = "print_dumps"
    /\ (globals["json"] = Undefined \/ globals[stmt.name] = Undefined)

\* where pc stands when statement i of cell c is the next to execute; the
\* first statement starts an execution of the cell
Position(c, i) == IF i = 1 THEN Idle ELSE At(c, i)

\* the effect of statement i of the statements prog of cell c
Exec(c, prog, i) ==
    LET stmt == prog[i]
        shown == IF i = 1 THEN NoOutput ELSE stdout[c]
    IN  [globals |->
             IF stmt.op \in {"import", "assign"}
             THEN [globals EXCEPT ![stmt.name] = stmt.value]
             ELSE globals,
         stdout |->
             [stdout EXCEPT ![c] =
                 CASE stmt.op = "print" ->
                          [shown EXCEPT !.out = Append(@, stmt.value)]
                   [] stmt.op = "print_dumps" /\ Raises(stmt) ->
                          [shown EXCEPT !.error = "NameError"]
                   [] stmt.op = "print_dumps" /\ ~Raises(stmt) ->
                          [shown EXCEPT !.out = Append(@, json_dumps(globals[stmt.name]))]
                   [] OTHER -> shown],
         pc |-> IF Raises(stmt) \/ i = Len(prog) THEN Idle ELSE At(c, i + 1)]

Cell_dbt_pipeline ==
    LET prog == <<Import("json"),
                  Assign("dbt_pipeline_workflow", dbt_pipeline_workflow),
                  PrintText(Text(<<Chr(9989),
                      Run(" Multi-Task dbt Pipeline Workflow Definition:")>>)),
                  PrintDumps("dbt_pipeline_workflow")>>
    IN  \E i \in 1..Len(prog) :
            /\ pc = Position("dbt_pipeline_workflow", i)
            /\ pc' = Exec("dbt_pipeline_workflow", prog, i).pc
            /\ globals' = Exec("dbt_pipeline_workflow", prog, i).globals
            /\ stdout' = Exec("dbt_pipeline_workflow", prog, i).stdout

Cell_conditional ==
    LET prog == <<Assign("conditional_workflow", conditional_workflow),
                  PrintText(Text(<<Chr(9989),
                      Run(" Conditional Workflow (IF/ELSE):")>>)),
                  PrintDumps("conditional_workflow")>>
    IN  \E i \in 1..Len(prog) :
            /\ pc = Position("conditional_workflow", i)
            /\ pc' = Exec("conditional_workflow", prog, i).pc
            /\ globals' = Exec("conditional_workflow", prog, i).globals
            /\ stdout' = Exec("conditional_workflow", prog, i).stdout

Cell_foreach ==
    LET prog == <<Assign("foreach_workflow", foreach_workflow),
                  PrintText(Text(<<Chr(9989),
                      Run(" ForEach Workflow (Loop Over Plants):")>>)),
                  PrintDumps("foreach_workflow")>>
    IN  \E i \in 1..Len(prog) :
            /\ pc = Position("foreach_workflow", i)
            /\ pc' = Exec("foreach_workflow", prog, i).pc
            /\ globals' = Exec("foreach_workflow", prog, i).globals
            /\ stdout' = Exec("foreach_workflow", prog, i).stdout

Cell_error_handling ==
    LET prog == <<Assign("error_handling_config", error_handling_config),
                  PrintText(Text(<<Chr(9989),
                      Run(" Error Handling Configuration:")>>)),
                  PrintDumps("error_handling_config")>>
    IN  \E i \in 1..Len(prog) :
            /\ pc = Position("error_handling_config", i)
            /\ pc' = Exec("error_handling_config", prog, i).pc
            /\ globals' = Exec("error_handling_config", prog, i).globals
            /\ stdout' = Exec("error_handling_config", prog, i).stdout

Cell_parameterized ==
    LET prog == <<Assign("parameterized_workflow", parameterized_workflow),
                  PrintText(Text(<<Chr(9989),
                      Run(" Parameterized Workflow:")>>)),
                  PrintDumps("parameterized_workflow")>>
    IN  \E i \in 1..Len(prog) :
            /\ pc = Position("parameterized_workflow", i)
            /\ pc' = Exec("parameterized_workflow", prog, i).pc
            /\ globals' = Exec("parameterized_workflow", prog, i).globals
            /\ stdout' = Exec("parameterized_workflow", prog, i).stdout

\* the document a cell printed, when it printed one
Printed(c) == Len(stdout[c].out) = 2

Document(c) == stdout[c].out[2]

-----------------------------------------------------------------------------

Init ==
    /\ pc = Idle
    /\ globals = [n \in GlobalNames |-> Undefined]
    /\ stdout = [c \in CellNames |-> NoOutput]

Next ==
    \/ Cell_dbt_pipeline
    \/ Cell_conditional
    \/ Cell_foreach
    \/ Cell_error_handling
    \/ Cell_parameterized

Spec == Init /\ [][Next]_vars

-----------------------------------------------------------------------------
(* Properties of the workflow definitions *)

\* the workflows the notebook has built so far
Built == {w \in WorkflowNames : globals[w] # Undefined}

\* C1: in every workflow definition the notebook has built, no two entries
\* of the top-level tasks list have the same task_key.
C1_UniqueTaskKeys == \A w \in Built : UniqueKeys(globals[w])

C1_Witness ==
    /\ Built = WorkflowNames
    /\ \A w \in WorkflowNames : Len(Tasks(globals[w])) >= 2

\* C2: in every workflow definition the notebook has built, the graph of the
\* depends_on entries is acyclic and every task_key named in a depends_on
\* entry is the task_key of a task of the same tasks list.
C2_AcyclicAndDeclared ==
    \A w \in Built : Acyclic(globals[w]) /\ RefsDeclared(globals[w])

C2_Witness ==
    /\ Built = WorkflowNames
    /\ \A w \in WorkflowNames : Edges(globals[w]) # {}

\* C3: every task that carries a condition_task has exactly two outgoing
\* dependency edges with an outcome tag, one "true" and one "false", and an
\* outcome tag appears only on entries whose predecessor is a condition task.
C3_CompleteBranches == \A w \in Built : CompleteBranches(globals[w])

C3_Witness ==
    /\ "conditional_workflow" \in Built
    /\ ConditionKeys(globals["conditional_workflow"]) = {"evaluate_anomalies"}
    /\ Cardinality(TaggedOut(globals["conditional_workflow"], "evaluate_anomalies")) = 2

-----------------------------------------------------------------------------
(* Properties of the printed documents *)

Chain == <<"dbt_seed", "dbt_run_bronze_silver", "dbt_test_silver", "dbt_run_gold">>

LinearChain(doc) ==
    /\ Len(Tasks(doc)) = 4
    /\ \A i \in 1..4 : TaskKey(Tasks(doc)[i]) = Chain[i]
    /\ ~Has(Tasks(doc)[1], "depends_on")
    /\ \A i \in 2..4 :
         /\ Has(Tasks(doc)[i], "depends_on")
         /\ Len(DependsOn(Tasks(doc)[i])) = 1
         /\ TaskKey(DependsOn(Tasks(doc)[i])[1]) = TaskKey(Tasks(doc)[i - 1])

\* C4: the document printed for dbt_pipeline_workflow has a tasks array of
\* exactly 4 entries forming the chain seed -> run -> test -> gold: the first
\* has no depends_on, each other has exactly one entry naming the task before.
C4_LinearPipelineDocument ==
    Printed("dbt_pipeline_workflow") =>
        LinearChain(json_loads(Document("dbt_pipeline_workflow")))

C4_Witness ==
    /\ Printed("dbt_pipeline_workflow")
    /\ Len(Document("dbt_pipeline_workflow")) > 4

\* the workflows the notebook has serialized so far
\* the workflows the notebook has serialized so far
Serialized == {w \in WorkflowNames : Printed(w)}

\* the string tokens of a document that hold an escape
Escaped(doc) ==
    {i \in 1..Len(doc) :
        doc[i].k = "string" /\ \E j \in 1..Len(doc[i].v) : doc[i].v[j].k = "esc"}

\* C5: for every workflow the notebook has serialized, parsing the printed
\* document gives the same set of tasks and the same set of dependency
\* edges, outcome tags included.
C5_RoundTrip ==
    \A w \in Serialized :
        /\ Elems(Get(json_loads(Document(w)), "tasks")) = Elems(Get(globals[w], "tasks"))
        /\ Edges(json_loads(Document(w))) = Edges(globals[w])

C5_Witness ==
    /\ Serialized = WorkflowNames
    /\ \A w \in WorkflowNames : Escaped(Document(w)) # {}
    /\ \E e \in Edges(globals["conditional_workflow"]) : e[3] = "true"
    /\ \E e \in Edges(globals["conditional_workflow"]) : e[3] = "false"

====
